---- MODULE Spec2Model ----
(***************************************************************************)
(* Model of the robot sensors relay server (src/main.py): the two          *)
(* WebSocket connection pools of ConnectionManager, the module-level       *)
(* caches last_sensor_data / last_action, the SQLite tables sensor_data    *)
(* and action_data, and the request handlers that touch them.              *)
(*                                                                         *)
(* The server runs on one asyncio event loop: a handler runs atomically    *)
(* from one await to the next.  Every action below is one such stretch of  *)
(* code: it starts where an awaited call (accept, receive_text, send_json) *)
(* returns or raises and ends at the next await that suspends.             *)
(***************************************************************************)
EXTENDS Integers, Sequences, FiniteSets, TLC

\* ---------------------------------------------------------------- bounds
MaxDash == 3        \* dashboard connections that may connect per run
MaxRobot == 2       \* robot connections that may connect per run
MaxHttp == 1        \* HTTP requests that may be in flight at once
MaxEvents == 4      \* inputs from outside (connections opened and lost,
                    \* texts, requests, restarts) in one behaviour
Connected == 2      \* dashboards already connected where SpecConnected starts

\* ------------------------------------------------------- program constants
MotorLimit == 100   \* max(-100, min(100, x)), Field(ge=-100, le=100)

DashIds == 1..MaxDash
RobotIds == (MaxDash + 1)..(MaxDash + MaxRobot)
HttpIds == (MaxDash + MaxRobot + 1)..(MaxDash + MaxRobot + MaxHttp)
ConnIds == DashIds \cup RobotIds
\* the coroutines that may run a broadcast: robot handlers and HTTP requests
Runners == RobotIds \cup HttpIds

\* <<left_motor, right_motor>> values a client may send: in range, and
\* above and below it on either motor
MotorInputs ==
    {<<0, -MotorLimit>>, <<MotorLimit + 100, -MotorLimit - 100>>,
     <<-MotorLimit - 50, MotorLimit>>}
\* <<sample_id, timestamp>> of a sensor payload: the capture timestamps need
\* not follow the order of arrival
SensorInputs == {<<1, 2>>, <<2, 1>>}
\* readings of time.time()
Timestamps == {1, 2}
\* the exception a send on a dead transport raises, as the outermost
\* try of a WebSocket handler sees it
SendErrors == {"WebSocketDisconnect", "other"}

VARIABLES
    active_dashboard_connections, \* manager.active_dashboard_connections
    active_robot_connections,     \* manager.active_robot_connections
    alive,              \* per connection: the transport still works
    sensor_data,        \* rows of table sensor_data; the id is the index
    action_data,        \* rows of table action_data; the id is the index
    last_sensor_data,   \* module-level dict last_sensor_data
    last_action,        \* module-level dict last_action
    dash,               \* per dashboard connection: its handler
    robot,              \* per robot connection: its handler
    http,               \* per HTTP slot: the request being served
    bc,                 \* per runner: its broadcast_sensor_data call
    relay,              \* per HTTP slot: its send_action_to_robot call
    boot,               \* rows each table held when the process started
    events              \* inputs from outside so far

vars == <<active_dashboard_connections, active_robot_connections, alive,
          sensor_data, action_data, last_sensor_data, last_action,
          dash, robot, http, bc, relay, boot, events>>

\* an input from outside is taken
Input == events < MaxEvents /\ events' = events + 1

\* ----------------------------------------------------------------- helpers
Range(s) == {s[i] : i \in 1..Len(s)}

Contains(s, c) == \E i \in 1..Len(s) : s[i] = c

IndexOf(s, c) == CHOOSE i \in 1..Len(s) : s[i] = c /\ \A j \in 1..(i - 1) : s[j] # c

\* list.remove(c): drops the first occurrence
Remove(s, c) ==
    LET i == IndexOf(s, c)
    IN  [j \in 1..(Len(s) - 1) |-> IF j < i THEN s[j] ELSE s[j + 1]]

Min(a, b) == IF a < b THEN a ELSE b
Max(a, b) == IF a > b THEN a ELSE b

\* max(-100, min(100, x))
ClampNoUpper(x) == Max(-MotorLimit, x)
Clamp(x) == Max(-MotorLimit, Min(MotorLimit, x))

\* the empty dict {} that last_sensor_data starts as: db_id 0 stands for "no
\* keys", row ids start at 1
EmptySensorData == [sample_id |-> 0, timestamp |-> 0, db_id |-> 0]

\* last_action as the module defines it; id 0 stands for "no id key"
InitialAction ==
    [id |-> 0, left_motor |-> 0, right_motor |-> 0, timestamp |-> 0, source |-> "None"]

NoMsg == [type |-> "none"]
NoEvent ==
    [kind |-> "none", left_motor |-> 0, right_motor |-> 0, id |-> 0, persisted |-> FALSE]

\* ------------------------------------------------------ ConnectionManager
\* connect_dashboard / connect_robot, after accept()
connect_front(pool, c) == <<c>> \o pool
connect(pool, c) == Append(pool, c)

\* disconnect_dashboard / disconnect_robot
disconnect_keeps(pool, c) == pool
\* list.remove(c) without the membership test: ValueError for an absent c
disconnect_unguarded(pool, c) ==
    IF Contains(pool, c) THEN Remove(pool, c) ELSE <<"ValueError">>
disconnect(pool, c) == IF Contains(pool, c) THEN Remove(pool, c) ELSE pool

\* a broadcast or relay call that is not running
IdleCall ==
    [phase |-> "idle", kind |-> "none", fixed |-> NoMsg, idx |-> 0, cur |-> 0,
     payload |-> NoMsg, start |-> <<>>, log |-> <<>>, failed |-> <<>>,
     foreign |-> FALSE]

\* what send_json(data) puts on the wire: the dict as it is when the send is
\* called.  A "sensor" broadcast is handed the dict last_sensor_data itself
\* and an "action_update" holds the dict last_action, so both are read at
\* each send; a "motor_control" message is a fresh dict of values.
Serialize(kind, fixed, ls, la) ==
    CASE kind = "sensor" -> [type |-> "sensor", data |-> ls]
      [] kind = "action_update" -> [type |-> "action_update", action |-> la]
      [] OTHER -> fixed

\* the for loop is entered: the list iterator yields pool[1], if any, and
\* send_json is called for it
BeginCall(pool, kind, fixed, ls, la) ==
    IF pool = <<>>
    THEN [IdleCall EXCEPT !.phase = "done", !.kind = kind, !.fixed = fixed]
    ELSE [phase |-> "sending", kind |-> kind, fixed |-> fixed, idx |-> 1,
          cur |-> pool[1], payload |-> Serialize(kind, fixed, ls, la),
          start |-> pool, log |-> <<>>, failed |-> <<>>, foreign |-> FALSE]

\* the loop body without its try/except: a send that raises ends the call
StepCallUnguarded(call, pool, ok, ls, la) ==
    LET call1 == IF ok
                 THEN [call EXCEPT !.log = Append(@, [to |-> call.cur, msg |-> call.payload])]
                 ELSE [call EXCEPT !.failed = Append(@, call.cur)]
        nxt   == call.idx + 1
    IN  [pool |-> pool,
         call |-> IF ~ok
                  THEN [call1 EXCEPT !.phase = "raised", !.cur = 0, !.payload = NoMsg]
                  ELSE IF nxt <= Len(pool)
                  THEN [call1 EXCEPT !.idx = nxt, !.cur = pool[nxt],
                                     !.payload = Serialize(call.kind, call.fixed, ls, la)]
                  ELSE [call1 EXCEPT !.phase = "done", !.idx = nxt, !.cur = 0,
                                     !.payload = NoMsg]]

\* the send to call.cur has returned (ok) or raised (~ok): a failed
\* connection is removed from the live list, then the list iterator, which
\* holds an index into that same list, moves on.  Yields the call and the pool.
StepCall(call, pool, ok, ls, la) ==
    LET pool1 == IF ok THEN pool ELSE disconnect(pool, call.cur)
        call1 == IF ok
                 THEN [call EXCEPT !.log = Append(@, [to |-> call.cur, msg |-> call.payload])]
                 ELSE [call EXCEPT !.failed = Append(@, call.cur)]
        nxt   == call.idx + 1
    IN  [pool |-> pool1,
         call |-> IF nxt <= Len(pool1)
                  THEN [call1 EXCEPT !.idx = nxt, !.cur = pool1[nxt],
                                     !.payload = Serialize(call.kind, call.fixed, ls, la)]
                  ELSE [call1 EXCEPT !.phase = "done", !.idx = nxt, !.cur = 0,
                                     !.payload = NoMsg]]

\* calls of other coroutines that are in their loop while the list changes
MarkForeign(calls, self) ==
    [x \in DOMAIN calls |->
        IF x # self /\ calls[x].phase = "sending"
        THEN [calls[x] EXCEPT !.foreign = TRUE]
        ELSE calls[x]]

\* ------------------------------------------------------------- the tables
\* order_by(desc(timestamp)).first(): a row of greatest timestamp
MostRecent(table) ==
    {i \in 1..Len(table) : \A j \in 1..Len(table) : table[j].timestamp <= table[i].timestamp}

SensorDict(table, i) ==
    [sample_id |-> table[i].sample_id, timestamp |-> table[i].timestamp, db_id |-> i]

ActionDict(table, i) ==
    [id |-> i, left_motor |-> table[i].left_motor, right_motor |-> table[i].right_motor,
     timestamp |-> table[i].timestamp, source |-> table[i].source]

\* ----------------------------------------------------------------- startup
NewDash == [pc |-> "new", send |-> NoMsg]
NewRobot == [pc |-> "new", send |-> NoMsg, ev |-> NoEvent, reply |-> NoMsg]
NewHttp == [pc |-> "idle", route |-> "none", status |-> 0, ev |-> NoEvent]

\* last_sensor_data / last_action once startup_event has read row i of the
\* table (0: the table is empty, the dict stays as the module defines it)
SeededSensor(table, i) == IF i = 0 THEN EmptySensorData ELSE SensorDict(table, i)
SeededAction(table, i) == IF i = 0 THEN InitialAction ELSE ActionDict(table, i)

\* the first start, on empty tables: module load and startup_event
Init ==
    /\ active_dashboard_connections = <<>>
    /\ active_robot_connections = <<>>
    /\ alive = [c \in ConnIds |-> TRUE]
    /\ sensor_data = <<>>
    /\ action_data = <<>>
    /\ last_sensor_data = SeededSensor(<<>>, 0)
    /\ last_action = SeededAction(<<>>, 0)
    /\ dash = [d \in DashIds |-> NewDash]
    /\ robot = [r \in RobotIds |-> NewRobot]
    /\ http = [t \in HttpIds |-> NewHttp]
    /\ bc = [x \in Runners |-> IdleCall]
    /\ relay = [t \in HttpIds |-> IdleCall]
    /\ boot = [sensor_rows |-> 0, action_rows |-> 0]
    /\ events = 0

\* the process is stopped and started again: the tables are all that is
\* kept, and startup_event loads the row of greatest timestamp of each
startup_event ==
    /\ Input
    /\ sensor_data # <<>> \/ action_data # <<>>
    /\ active_dashboard_connections' = <<>>
    /\ active_robot_connections' = <<>>
    /\ alive' = [c \in ConnIds |-> TRUE]
    /\ \E si \in (IF sensor_data = <<>> THEN {0} ELSE MostRecent(sensor_data)) :
          last_sensor_data' = SeededSensor(sensor_data, si)
    /\ \E ai \in (IF action_data = <<>> THEN {0} ELSE MostRecent(action_data)) :
          last_action' = SeededAction(action_data, ai)
    /\ dash' = [d \in DashIds |-> NewDash]
    /\ robot' = [r \in RobotIds |-> NewRobot]
    /\ http' = [t \in HttpIds |-> NewHttp]
    /\ bc' = [x \in Runners |-> IdleCall]
    /\ relay' = [t \in HttpIds |-> IdleCall]
    /\ boot' = [sensor_rows |-> Len(sensor_data), action_rows |-> Len(action_data)]
    /\ UNCHANGED <<sensor_data, action_data>>

\* --------------------------------------------------------------- transport
\* the peer of connection c goes away (closes, or the network drops)
Break(c) ==
    /\ Input
    /\ alive[c]
    /\ IF c \in DashIds THEN dash[c].pc \notin {"new", "closed"}
                        ELSE robot[c].pc \notin {"new", "closed", "crashed"}
    /\ alive' = [alive EXCEPT ![c] = FALSE]
    /\ UNCHANGED <<active_dashboard_connections, active_robot_connections,
                   sensor_data, action_data, last_sensor_data, last_action,
                   dash, robot, http, bc, relay, boot>>

\* ------------------------------------------------------ /ws/dashboard
\* "if last_sensor_data:" -- whether initial_data is sent to a new dashboard
HasInitialDataEither(ls, la) == ls # EmptySensorData \/ la.id # 0
HasInitialData(ls, la) == ls # EmptySensorData

\* connections are opaque: they are taken in the order of their ids
dashboard_connect(d) ==
    /\ Input
    /\ dash[d].pc = "new"
    /\ \A e \in DashIds : e < d => dash[e].pc # "new"
    /\ active_dashboard_connections' = connect(active_dashboard_connections, d)
    /\ dash' = [dash EXCEPT ![d] =
            IF HasInitialData(last_sensor_data, last_action)
            THEN [@ EXCEPT !.pc = "initial",
                           !.send = [type |-> "initial_data", sensors |-> last_sensor_data,
                                     last_action |-> last_action]]
            ELSE [@ EXCEPT !.pc = "recv"]]
    /\ bc' = MarkForeign(bc, 0)
    /\ UNCHANGED <<active_robot_connections, alive, sensor_data, action_data,
                   last_sensor_data, last_action, robot, http, relay, boot>>

\* the send of initial_data returns or raises (except: pass)
dashboard_initial_sent(d) ==
    /\ dash[d].pc = "initial"
    /\ dash' = [dash EXCEPT ![d] =
            [@ EXCEPT !.pc = "recv", !.send = NoMsg]]
    /\ UNCHANGED <<active_dashboard_connections, active_robot_connections, alive,
                   sensor_data, action_data, last_sensor_data, last_action,
                   robot, http, bc, relay, boot, events>>

\* receive_text returns (the text is dropped) or raises WebSocketDisconnect
dashboard_receive(d) ==
    /\ dash[d].pc = "recv"
    /\ IF alive[d]
       THEN UNCHANGED <<active_dashboard_connections, dash, bc>>
       ELSE /\ active_dashboard_connections' = disconnect(active_dashboard_connections, d)
            /\ dash' = [dash EXCEPT ![d].pc = "closed"]
            /\ bc' = IF Contains(active_dashboard_connections, d)
                     THEN MarkForeign(bc, 0) ELSE bc
    /\ UNCHANGED <<active_robot_connections, alive, sensor_data, action_data,
                   last_sensor_data, last_action, robot, http, relay, boot, events>>

\* ------------------------------------------------------------- /ws/robot
\* texts a robot connection may send: no JSON, JSON that is no object, an
\* object without left_motor or right_motor, and commands
RobotTexts ==
    {[kind |-> k, left_motor |-> 0, right_motor |-> 0] :
        k \in {"malformed", "not_object", "missing"}}
    \cup {[kind |-> "valid", left_motor |-> in[1], right_motor |-> in[2]] : in \in MotorInputs}

\* the text gets past json.loads and the two "not in action_data" tests
IsCommandLenient(text) == text.kind \in {"valid", "missing"}
IsCommand(text) == text.kind = "valid"

\* what a handler is working on, kept for the record: the text or payload as
\* it came in, the id of its row, and whether the commit went through
Command(kind, l, r, id, persisted) ==
    [kind |-> kind, left_motor |-> l, right_motor |-> r, id |-> id,
     persisted |-> persisted]

\* the statements after db.commit() in a try block run if it did not raise:
\* the value of a cache after the block
update_before_commit(committed, old, new) == new
update_after_commit(committed, old, new) == IF committed THEN new ELSE old

\* ActionData(timestamp=time.time(), left_motor=..., right_motor=..., source=...)
ActionRow(l, r, ts, src) ==
    [left_motor |-> l, right_motor |-> r, timestamp |-> ts, source |-> src]

\* last_action.update({...}) after the commit: every key is overwritten
UpdatedAction(id, l, r, ts, src) ==
    [id |-> id, left_motor |-> l, right_motor |-> r, timestamp |-> ts, source |-> src]

\* the acknowledgment of the robot socket
Ack(id, l, r, ts) ==
    [status |-> "action_received", left_motor |-> l, right_motor |-> r,
     timestamp |-> ts, id |-> id]

ErrorReply(text) == [error |-> text]

\* the reply to a text that is no command: json.loads raises JSONDecodeError,
\* a key is missing, or the value is no dict (TypeError, sent as str(e))
RejectReplyUncaught(kind) == ErrorReply("TypeError")
RejectReply(kind) ==
    CASE kind = "malformed" -> ErrorReply("Invalid JSON")
      [] kind = "missing" -> ErrorReply("Invalid action format")
      [] OTHER -> ErrorReply("TypeError")

\* the reply of the except clause around the commit
NoErrorReply == NoMsg
DatabaseErrorReply == ErrorReply("Database error")

\* connect_robot appending to the dashboards' list
robot_connect_shared(r) ==
    /\ Input
    /\ robot[r].pc = "new"
    /\ \A e \in RobotIds : e < r => robot[e].pc # "new"
    /\ active_dashboard_connections' = connect(active_dashboard_connections, r)
    /\ robot' = [robot EXCEPT ![r].pc = "recv"]
    /\ bc' = MarkForeign(bc, 0)
    /\ UNCHANGED <<active_robot_connections, alive, sensor_data, action_data,
                   last_sensor_data, last_action, dash, http, relay, boot>>

robot_connect(r) ==
    /\ Input
    /\ robot[r].pc = "new"
    /\ \A e \in RobotIds : e < r => robot[e].pc # "new"
    /\ active_robot_connections' = connect(active_robot_connections, r)
    /\ robot' = [robot EXCEPT ![r].pc = "recv"]
    /\ relay' = MarkForeign(relay, 0)
    /\ UNCHANGED <<active_dashboard_connections, alive, sensor_data, action_data,
                   last_sensor_data, last_action, dash, http, bc, boot>>

\* receive_text raises WebSocketDisconnect: the outermost except
robot_disconnected(r) ==
    /\ robot[r].pc = "recv"
    /\ ~alive[r]
    /\ active_robot_connections' = disconnect(active_robot_connections, r)
    /\ robot' = [robot EXCEPT ![r].pc = "closed"]
    /\ relay' = IF Contains(active_robot_connections, r) THEN MarkForeign(relay, 0) ELSE relay
    /\ UNCHANGED <<active_dashboard_connections, alive, sensor_data, action_data,
                   last_sensor_data, last_action, dash, http, bc, boot, events>>

\* receive_text returns a text.  No command: an error reply is sent.  A
\* command: clamp, commit, update last_action and send the acknowledgment; or
\* the commit raises and the error is sent
robot_receive(r) ==
    /\ Input
    /\ robot[r].pc = "recv"
    /\ alive[r]
    /\ \E text \in RobotTexts, ts \in Timestamps, committed \in BOOLEAN :
          LET left_motor == Clamp(text.left_motor)
              right_motor == Clamp(text.right_motor)
              id == Len(action_data) + 1
          IN  IF ~IsCommand(text)
              THEN /\ robot' = [robot EXCEPT ![r] =
                          [@ EXCEPT !.pc = "reply", !.send = RejectReply(text.kind),
                                    !.ev = Command(text.kind, 0, 0, 0, FALSE)]]
                   /\ UNCHANGED <<action_data, last_action>>
              ELSE /\ action_data' =
                          IF committed
                          THEN Append(action_data,
                                      ActionRow(left_motor, right_motor, ts, "websocket"))
                          ELSE action_data
                   /\ last_action' = update_after_commit(committed, last_action,
                          UpdatedAction(id, left_motor, right_motor, ts, "websocket"))
                   /\ robot' = [robot EXCEPT ![r] =
                          [@ EXCEPT !.pc = IF committed THEN "ack" ELSE "reply",
                                    !.send = IF committed
                                             THEN Ack(id, left_motor, right_motor, ts)
                                             ELSE DatabaseErrorReply,
                                    !.ev = Command(text.kind, text.left_motor,
                                                   text.right_motor,
                                                   IF committed THEN id ELSE 0,
                                                   committed)]]
    /\ bc' = [bc EXCEPT ![r] = IdleCall]
    /\ UNCHANGED <<active_dashboard_connections, active_robot_connections, alive,
                   sensor_data, last_sensor_data, dash, http, relay, boot>>

\* a send of the handler raised.  Every except clause on the way out sends an
\* error on the same dead transport, which raises again; the outermost try
\* catches WebSocketDisconnect alone, anything else ends the handler with the
\* connection still in the list.
RobotSendFailed(r, err) ==
    /\ active_robot_connections' =
          IF err = "WebSocketDisconnect"
          THEN disconnect(active_robot_connections, r)
          ELSE active_robot_connections
    /\ robot' = [robot EXCEPT ![r] =
          [@ EXCEPT !.pc = IF err = "WebSocketDisconnect" THEN "closed" ELSE "crashed",
                    !.send = NoMsg]]
    /\ relay' = IF err = "WebSocketDisconnect" /\ Contains(active_robot_connections, r)
                THEN MarkForeign(relay, 0) ELSE relay

\* the send of an error reply returns (back to receive_text) or raises
robot_reply_sent(r) ==
    /\ robot[r].pc = "reply"
    /\ IF alive[r]
       THEN /\ robot' = [robot EXCEPT ![r] =
                  [@ EXCEPT !.pc = "recv", !.send = NoMsg, !.reply = robot[r].send]]
            /\ UNCHANGED <<active_robot_connections, relay>>
       ELSE \E err \in SendErrors : RobotSendFailed(r, err)
    /\ UNCHANGED <<active_dashboard_connections, alive, sensor_data, action_data,
                   last_sensor_data, last_action, dash, http, bc, boot, events>>

\* the send of the acknowledgment returns, and broadcast_sensor_data is
\* called with the action_update; or it raises
robot_ack_sent(r) ==
    /\ robot[r].pc = "ack"
    /\ IF alive[r]
       THEN LET call == BeginCall(active_dashboard_connections, "action_update", NoMsg,
                                  last_sensor_data, last_action)
            IN  /\ bc' = [bc EXCEPT ![r] = call]
                /\ robot' = [robot EXCEPT ![r] =
                      [@ EXCEPT !.pc = IF call.phase = "done" THEN "recv" ELSE "bcast",
                                !.send = NoMsg, !.reply = robot[r].send]]
                /\ UNCHANGED <<active_robot_connections, relay>>
       ELSE /\ \E err \in SendErrors : RobotSendFailed(r, err)
            /\ UNCHANGED bc
    /\ UNCHANGED <<active_dashboard_connections, alive, sensor_data, action_data,
                   last_sensor_data, last_action, dash, http, boot, events>>

\* ------------------------------------------------------------ POST /sensors/
\* SensorData(sample_id=..., timestamp=...): the row that is committed
SensorRow(sample, ts) == [sample_id |-> sample, timestamp |-> ts]

\* last_sensor_data.update({...}) after the commit
UpdatedSensorIfNewer(sample, ts, id) ==
    IF ts >= last_sensor_data.timestamp
    THEN [sample_id |-> sample, timestamp |-> ts, db_id |-> id]
    ELSE last_sensor_data
UpdatedSensor(sample, ts, id) == [sample_id |-> sample, timestamp |-> ts, db_id |-> id]

Telemetry(sample, ts, id, persisted) ==
    [kind |-> "telemetry", sample_id |-> sample, timestamp |-> ts, id |-> id,
     persisted |-> persisted]

\* requests are opaque: a new one takes the first slot that serves none
FreeSlotUnderLock(t) ==
    /\ http[t].pc \in {"idle", "done"}
    /\ \A u \in HttpIds : u < t => http[u].pc \notin {"idle", "done"}
    /\ \A x \in Runners : bc[x].phase # "sending"
FreeSlot(t) ==
    /\ http[t].pc \in {"idle", "done"}
    /\ \A u \in HttpIds : u < t => http[u].pc \notin {"idle", "done"}

\* what the handler does once a call of the manager has come back: the next
\* call, or the response.  A call that raised lands in the except clause of
\* the handler: 500.
HttpAfter(tocall, rest) ==
    IF tocall.phase = "raised" THEN [pc |-> "done", status |-> 500]
    ELSE IF tocall.phase = "sending" THEN [pc |-> "wait", status |-> 0]
    ELSE rest

Responded == [pc |-> "done", status |-> 200]

\* a request arrives and runs to its first send, or to its response
store_sensor_data(t) ==
    /\ Input
    /\ FreeSlot(t)
    /\ \E in \in SensorInputs, committed \in BOOLEAN :
          LET sample == in[1]
              ts == in[2]
              id == Len(sensor_data) + 1
              cache == update_after_commit(committed, last_sensor_data,
                                           UpdatedSensor(sample, ts, id))
              call == IF committed
                      THEN BeginCall(active_dashboard_connections, "sensor", NoMsg,
                                     cache, last_action)
                      ELSE IdleCall
              after == IF committed
                       THEN HttpAfter(call, Responded)
                       ELSE [pc |-> "done", status |-> 500]
          IN  /\ sensor_data' = IF committed
                                THEN Append(sensor_data, SensorRow(sample, ts))
                                ELSE sensor_data
              /\ last_sensor_data' = cache
              /\ bc' = [bc EXCEPT ![t] = call]
              /\ http' = [http EXCEPT ![t] =
                     [pc |-> IF after.pc = "done" THEN "done" ELSE "bcast",
                      route |-> "POST /sensors/", status |-> after.status,
                      ev |-> Telemetry(sample, ts, IF committed THEN id ELSE 0, committed)]]
    /\ relay' = [relay EXCEPT ![t] = IdleCall]
    /\ UNCHANGED <<active_dashboard_connections, active_robot_connections, alive,
                   action_data, last_action, dash, robot, boot>>

\* ------------------------------------------------------------ POST /actions/
\* ActionPayload: Field(..., ge=-100, le=100) on both motors
ActionPayloadValid(l, r) ==
    /\ -MotorLimit <= l /\ l <= MotorLimit
    /\ -MotorLimit <= r /\ r <= MotorLimit

MotorControl(l, r, ts, src) ==
    [action |-> "motor_control", left_motor |-> l, right_motor |-> r,
     timestamp |-> ts, source |-> src]

\* the payload fails validation: 422, the handler does not run
create_action_rejected(t) ==
    /\ Input
    /\ FreeSlot(t)
    /\ \E in \in MotorInputs :
          LET l == in[1]
              r == in[2]
          IN
          /\ ~ActionPayloadValid(l, r)
          /\ http' = [http EXCEPT ![t] =
                [pc |-> "done", route |-> "POST /actions/", status |-> 422,
                 ev |-> Command("invalid", l, r, 0, FALSE)]]
    /\ bc' = [bc EXCEPT ![t] = IdleCall]
    /\ relay' = [relay EXCEPT ![t] = IdleCall]
    /\ UNCHANGED <<active_dashboard_connections, active_robot_connections, alive,
                   sensor_data, action_data, last_sensor_data, last_action,
                   dash, robot, boot>>

\* the handler runs: clamp, commit, update last_action, then
\* send_action_to_robot and broadcast_sensor_data up to the first send
create_action(t) ==
    /\ Input
    /\ FreeSlot(t)
    /\ \E in \in MotorInputs, ts \in Timestamps, committed \in BOOLEAN :
          LET l == in[1]
              r == in[2]
              left_motor == Clamp(l)
              right_motor == Clamp(r)
              id == Len(action_data) + 1
              cache == update_after_commit(committed, last_action,
                           UpdatedAction(id, left_motor, right_motor, ts, "api"))
              torobots == IF committed
                          THEN BeginCall(active_robot_connections, "motor_control",
                                         MotorControl(left_motor, right_motor, ts, "api"),
                                         last_sensor_data, cache)
                          ELSE IdleCall
              todash == IF torobots.phase = "done"
                        THEN BeginCall(active_dashboard_connections, "action_update",
                                       NoMsg, last_sensor_data, cache)
                        ELSE IdleCall
              after == IF committed
                       THEN HttpAfter(torobots, HttpAfter(todash, Responded))
                       ELSE [pc |-> "done", status |-> 500]
          IN  /\ ActionPayloadValid(l, r)
              /\ action_data' = IF committed
                                THEN Append(action_data,
                                            ActionRow(left_motor, right_motor, ts, "api"))
                                ELSE action_data
              /\ last_action' = cache
              /\ relay' = [relay EXCEPT ![t] = torobots]
              /\ bc' = [bc EXCEPT ![t] = todash]
              /\ http' = [http EXCEPT ![t] =
                     [pc |-> IF after.pc = "done" THEN "done"
                             ELSE IF torobots.phase = "sending" THEN "relay" ELSE "bcast",
                      route |-> "POST /actions/", status |-> after.status,
                      ev |-> Command("valid", l, r, IF committed THEN id ELSE 0, committed)]]
    /\ UNCHANGED <<active_dashboard_connections, active_robot_connections, alive,
                   sensor_data, last_sensor_data, dash, robot, boot>>

\* ------------------------------------------- the loops of ConnectionManager
\* send_action_to_robot: the send to the current robot connection returns or
\* raises; after the last one create_action calls broadcast_sensor_data
send_action_to_robot(t) ==
    /\ relay[t].phase = "sending"
    /\ LET res == StepCall(relay[t], active_robot_connections, alive[relay[t].cur],
                           last_sensor_data, last_action)
           todash == IF res.call.phase = "done"
                     THEN BeginCall(active_dashboard_connections, "action_update",
                                    NoMsg, last_sensor_data, last_action)
                     ELSE IdleCall
           after == HttpAfter(res.call, HttpAfter(todash, Responded))
       IN  /\ active_robot_connections' = res.pool
           /\ relay' = [(IF res.pool # active_robot_connections
                         THEN MarkForeign(relay, t) ELSE relay) EXCEPT ![t] = res.call]
           /\ bc' = [bc EXCEPT ![t] = todash]
           /\ http' = [http EXCEPT ![t] =
                  [@ EXCEPT !.pc = IF after.pc = "done" THEN "done"
                                   ELSE IF res.call.phase = "sending" THEN "relay"
                                   ELSE "bcast",
                            !.status = after.status]]
    /\ UNCHANGED <<active_dashboard_connections, alive, sensor_data, action_data,
                   last_sensor_data, last_action, dash, robot, boot, events>>

\* broadcast_sensor_data: the send to the current dashboard connection
\* returns or raises; after the last one the caller goes on: an HTTP handler
\* returns its response, a robot handler goes back to receive_text.  Were the
\* call to raise, an HTTP handler would answer 500 and a robot handler would
\* send its "Database error" reply.
broadcast_sensor_data(x) ==
    /\ bc[x].phase = "sending"
    /\ LET res == StepCall(bc[x], active_dashboard_connections, alive[bc[x].cur],
                           last_sensor_data, last_action)
           after == HttpAfter(res.call, Responded)
       IN  /\ active_dashboard_connections' = res.pool
           /\ bc' = [(IF res.pool # active_dashboard_connections
                      THEN MarkForeign(bc, x) ELSE bc) EXCEPT ![x] = res.call]
           /\ IF res.call.phase = "sending"
              THEN UNCHANGED <<http, robot>>
              ELSE IF x \in HttpIds
              THEN /\ http' = [http EXCEPT ![x] =
                          [@ EXCEPT !.pc = "done", !.status = after.status]]
                   /\ UNCHANGED robot
              ELSE /\ robot' = [robot EXCEPT ![x] =
                          IF res.call.phase = "raised"
                          THEN [@ EXCEPT !.pc = "reply", !.send = DatabaseErrorReply]
                          ELSE [@ EXCEPT !.pc = "recv"]]
                   /\ UNCHANGED http
    /\ UNCHANGED <<active_robot_connections, alive, sensor_data, action_data,
                   last_sensor_data, last_action, dash, relay, boot, events>>

\* --------------------------------------------------------- the GET routes
\* GET /sensors/latest: the possible responses in the current state
get_latest_sensor_data_response ==
    IF last_sensor_data # EmptySensorData
    THEN {[status |-> 200, body |-> last_sensor_data]}
    ELSE IF sensor_data = <<>>
    THEN {[status |-> 404, body |-> EmptySensorData]}
    ELSE {[status |-> 200, body |-> SensorDict(sensor_data, i)] : i \in MostRecent(sensor_data)}

\* GET /sensors/latest: an empty cache is filled from the table
get_latest_sensor_data ==
    /\ \E res \in get_latest_sensor_data_response : last_sensor_data' = res.body
    /\ UNCHANGED <<active_dashboard_connections, active_robot_connections, alive,
                   sensor_data, action_data, last_action, dash, robot, http, bc,
                   relay, boot, events>>

\* GET /actions/latest: the possible responses in the current state; the row
\* whose id last_action holds, else a row of greatest timestamp
get_latest_action_by_timestamp ==
    IF action_data = <<>>
    THEN {[status |-> 404, body |-> InitialAction]}
    ELSE {[status |-> 200, body |-> ActionDict(action_data, i)] : i \in MostRecent(action_data)}
get_latest_action_response ==
    IF last_action.id # 0 /\ last_action.id <= Len(action_data)
    THEN {[status |-> 200, body |-> ActionDict(action_data, last_action.id)]}
    ELSE IF action_data = <<>>
    THEN {[status |-> 404, body |-> InitialAction]}
    ELSE {[status |-> 200, body |-> ActionDict(action_data, i)] : i \in MostRecent(action_data)}

\* GET /actions/latest: last_action is rewritten on the fallback path alone
get_latest_action ==
    /\ \E res \in get_latest_action_response :
          last_action' = IF last_action.id # 0 /\ last_action.id <= Len(action_data)
                         THEN last_action ELSE res.body
    /\ UNCHANGED <<active_dashboard_connections, active_robot_connections, alive,
                   sensor_data, action_data, last_sensor_data, dash, robot, http, bc,
                   relay, boot, events>>

\* ------------------------------------------------------------ the system
Next ==
    \/ startup_event
    \/ \E c \in ConnIds : Break(c)
    \/ \E d \in DashIds : dashboard_connect(d)
    \/ \E d \in DashIds : dashboard_initial_sent(d)
    \/ \E d \in DashIds : dashboard_receive(d)
    \/ \E r \in RobotIds : robot_connect(r)
    \/ \E r \in RobotIds : robot_disconnected(r)
    \/ \E r \in RobotIds : robot_receive(r)
    \/ \E r \in RobotIds : robot_reply_sent(r)
    \/ \E r \in RobotIds : robot_ack_sent(r)
    \/ \E t \in HttpIds : store_sensor_data(t)
    \/ \E t \in HttpIds : create_action_rejected(t)
    \/ \E t \in HttpIds : create_action(t)
    \/ \E t \in HttpIds : send_action_to_robot(t)
    \/ \E x \in Runners : broadcast_sensor_data(x)
    \/ get_latest_sensor_data
    \/ get_latest_action

Spec == Init /\ [][Next]_vars

\* the server a while after its first start: the first dashboards have
\* connected, found no telemetry cached (no initial_data is sent) and wait in
\* receive_text
InitConnected ==
    /\ active_dashboard_connections = [i \in 1..Min(Connected, MaxDash) |-> i]
    /\ active_robot_connections = <<>>
    /\ alive = [c \in ConnIds |-> TRUE]
    /\ sensor_data = <<>>
    /\ action_data = <<>>
    /\ last_sensor_data = SeededSensor(<<>>, 0)
    /\ last_action = SeededAction(<<>>, 0)
    /\ dash = [d \in DashIds |->
                 IF d <= Connected THEN [NewDash EXCEPT !.pc = "recv"] ELSE NewDash]
    /\ robot = [r \in RobotIds |-> NewRobot]
    /\ http = [t \in HttpIds |-> NewHttp]
    /\ bc = [x \in Runners |-> IdleCall]
    /\ relay = [t \in HttpIds |-> IdleCall]
    /\ boot = [sensor_rows |-> 0, action_rows |-> 0]
    /\ events = 0

SpecConnected == InitConnected /\ [][Next]_vars

\* ===================================================================
\* Properties
\* ===================================================================
\* every broadcast_sensor_data / send_action_to_robot call on record, with
\* the list it runs over
Calls ==
    {[call |-> bc[x], pool |-> active_dashboard_connections] : x \in Runners}
    \cup {[call |-> relay[t], pool |-> active_robot_connections] : t \in HttpIds}

Recipients(call) == {call.log[i].to : i \in 1..Len(call.log)}

\* C1: when a broadcast over a pool of K connections has returned, no other
\* handler changed the pool meanwhile and the send to exactly one connection
\* j failed, each of the other K-1 connections has received the message and
\* j is not in the pool.
C1_OneFailureIsolated ==
    \A e \in Calls :
        (e.call.phase = "done" /\ ~e.call.foreign /\ Len(e.call.failed) = 1)
        => /\ Range(e.call.start) \ {e.call.failed[1]} \subseteq Recipients(e.call)
           /\ ~Contains(e.pool, e.call.failed[1])

\* C1, the part the code keeps: the connection whose send failed is not in
\* the pool once the broadcast has returned
C1_FailedIsPruned ==
    \A e \in Calls :
        e.call.phase = "done" => \A i \in 1..Len(e.call.failed) : ~Contains(e.pool, e.call.failed[i])

\* the last row of a table as the cache holds it: the record accepted last
LastSensor == SensorDict(sensor_data, Len(sensor_data))
LastCommand == ActionDict(action_data, Len(action_data))

\* a telemetry snapshot / a command has been accepted since the process started
TelemetryAccepted == Len(sensor_data) > boot.sensor_rows
CommandAccepted == Len(action_data) > boot.action_rows

\* C2: once telemetry has been ingested, GET /sensors/latest answers 200 with
\* the snapshot accepted last, whatever the capture timestamps are.
C2_LatestTelemetryIsLastAccepted ==
    TelemetryAccepted =>
        get_latest_sensor_data_response = {[status |-> 200, body |-> LastSensor]}

\* two snapshots were accepted in this run, the second captured before the
\* first, and the second is what a read returns
C2_Witness ==
    /\ Len(sensor_data) >= boot.sensor_rows + 2
    /\ sensor_data[Len(sensor_data)].timestamp < sensor_data[Len(sensor_data) - 1].timestamp
    /\ get_latest_sensor_data_response = {[status |-> 200, body |-> LastSensor]}

\* C3: once a command has been accepted, over POST /actions/ or over a robot
\* socket, GET /actions/latest answers 200 with the command accepted last,
\* whatever channel it came by and whatever its timestamp.
C3_LatestCommandIsLastAccepted ==
    CommandAccepted =>
        get_latest_action_response = {[status |-> 200, body |-> LastCommand]}

\* a command of the API, then a command of a robot socket that carries an
\* earlier timestamp: the read returns the robot's
C3_Witness ==
    /\ Len(action_data) >= boot.action_rows + 2
    /\ action_data[Len(action_data)].source = "websocket"
    /\ action_data[Len(action_data) - 1].source = "api"
    /\ action_data[Len(action_data)].timestamp < action_data[Len(action_data) - 1].timestamp
    /\ get_latest_action_response = {[status |-> 200, body |-> LastCommand]}

\* the step in which the handler of robot connection r takes a text
RobotTakes(r) == robot[r].pc = "recv" /\ robot'[r].pc \in {"reply", "ack"}

\* the step in which HTTP slot t takes a POST request
HttpTakes(t) ==
    /\ events' = events + 1
    /\ FreeSlot(t)
    /\ UNCHANGED <<dash, robot, alive>>
    /\ http'[t].route # "none"

\* the append of the event taken in this step failed
AppendFailed(x) ==
    IF x \in HttpIds
    THEN HttpTakes(x) /\ http'[x].ev.kind \in {"telemetry", "valid"} /\ ~http'[x].ev.persisted
    ELSE RobotTakes(x) /\ robot'[x].ev.kind = "valid" /\ ~robot'[x].ev.persisted

\* C4: an ingress event whose append fails leaves both caches (and the
\* tables) as they were, starts no broadcast and no relay, and has the failure
\* reported: 500 to the request, the error payload to the robot connection.
C4_FailedAppendLeavesNoTrace ==
    [][\A x \in Runners :
          AppendFailed(x) =>
              /\ UNCHANGED <<last_sensor_data, last_action, sensor_data, action_data>>
              /\ UNCHANGED <<active_dashboard_connections, active_robot_connections>>
              /\ bc'[x].phase = "idle"
              /\ \A y \in Runners \ {x} : bc'[y] = bc[y]
              /\ \A t \in HttpIds : relay'[t].phase = "idle" \/ relay'[t] = relay[t]
              /\ IF x \in HttpIds
                 THEN http'[x].pc = "done" /\ http'[x].status = 500
                 ELSE robot'[x].pc = "reply" /\ robot'[x].send = ErrorReply("Database error")
      ]_vars

\* with telemetry cached, the append of a request has failed and the append
\* of a robot socket's command has failed: the cache is as it was
C4_Witness ==
    /\ sensor_data # <<>> /\ last_sensor_data = LastSensor
    /\ \E t \in HttpIds : http[t].status = 500 /\ ~http[t].ev.persisted
    /\ \E r \in RobotIds :
          /\ robot[r].ev.kind = "valid" /\ ~robot[r].ev.persisted
          /\ robot[r].send = ErrorReply("Database error")

InRange(v) == -MotorLimit <= v /\ v <= MotorLimit

\* a setpoint as it is to be ingested
Ingested(v) == IF v > MotorLimit THEN MotorLimit ELSE IF v < -MotorLimit THEN -MotorLimit ELSE v

\* C5: the cached command's setpoints are within [-100, 100], and the row
\* of a command taken from a robot socket holds 100 for a setpoint above 100
\* and -100 for one below -100.
C5_SetpointsClamped ==
    /\ InRange(last_action.left_motor) /\ InRange(last_action.right_motor)
    /\ \A r \in RobotIds :
          (robot[r].ev.kind = "valid" /\ robot[r].ev.persisted)
          => /\ action_data[robot[r].ev.id].left_motor = Ingested(robot[r].ev.left_motor)
             /\ action_data[robot[r].ev.id].right_motor = Ingested(robot[r].ev.right_motor)

\* a robot socket sent left_motor above 100 and right_motor below -100, and the
\* cache holds 100 and -100
C5_Witness ==
    \E r \in RobotIds :
        /\ robot[r].ev.kind = "valid" /\ robot[r].ev.persisted
        /\ robot[r].ev.left_motor > MotorLimit /\ robot[r].ev.right_motor < -MotorLimit
        /\ last_action.id = robot[r].ev.id
        /\ last_action.left_motor = MotorLimit /\ last_action.right_motor = -MotorLimit

\* message i of a call's log is an action_update carrying setpoints l, r
IsActionUpdate(msg, l, r) ==
    /\ msg.type = "action_update"
    /\ msg.action.left_motor = l
    /\ msg.action.right_motor = r

\* C6: when the handler of a robot connection is through with a valid command
\* (l, r) whose commit went through, the connection has received the
\* acknowledgment with clamp(l), clamp(r) and the row's id, and every dashboard
\* connection that was registered for the broadcast (and is still there, with
\* a working transport) has received an action_update with clamp(l), clamp(r).
C6_CommandAckedAndBroadcast ==
    \A r \in RobotIds :
        (robot[r].pc = "recv" /\ robot[r].ev.kind = "valid" /\ robot[r].ev.persisted)
        => LET ev == robot[r].ev
               l == Ingested(ev.left_motor)
               m == Ingested(ev.right_motor)
           IN  /\ robot[r].reply = Ack(ev.id, l, m, action_data[ev.id].timestamp)
               /\ \A d \in Range(bc[r].start) :
                     (alive[d] /\ Contains(active_dashboard_connections, d))
                     => \E i \in 1..Len(bc[r].log) :
                           bc[r].log[i].to = d /\ IsActionUpdate(bc[r].log[i].msg, l, m)

\* C7: a robot connection that sent text that is no JSON is sent
\* {error: "Invalid JSON"}; while its transport works it stays in the robot
\* pool and its handler goes back to receive_text, and a command it sends
\* next is committed, cached and acknowledged.
C7_MalformedKeepsConnection ==
    \A r \in RobotIds :
        /\ robot[r].ev.kind = "malformed"
           => /\ robot[r].pc = "reply" => robot[r].send = ErrorReply("Invalid JSON")
              /\ robot[r].pc = "recv" => robot[r].reply = ErrorReply("Invalid JSON")
              /\ alive[r] => /\ robot[r].pc \in {"reply", "recv"}
                             /\ Contains(active_robot_connections, r)
        /\ (robot[r].reply = ErrorReply("Invalid JSON") /\ robot[r].ev.kind = "valid"
                /\ robot[r].ev.persisted /\ robot[r].pc = "ack")
           => /\ robot[r].ev.id <= Len(action_data)
              /\ last_action.id >= robot[r].ev.id
              /\ robot[r].send.status = "action_received"
              /\ robot[r].send.id = robot[r].ev.id

\* a connection got the Invalid JSON reply, then sent a command that is now
\* committed and cached, its acknowledgment on the way
C7_Witness ==
    \E r \in RobotIds :
        /\ robot[r].reply = ErrorReply("Invalid JSON")
        /\ robot[r].ev.kind = "valid" /\ robot[r].ev.persisted /\ robot[r].pc = "ack"
        /\ last_action.id = robot[r].ev.id
        /\ Contains(active_robot_connections, r)

\* texts C8 is about
Rejected == {"malformed", "missing"}

\* a step of robot connection r's handler on a rejected text, its transport
\* working: it takes the text, or its error reply has been sent
RejectStep(r) ==
    \/ RobotTakes(r) /\ robot'[r].ev.kind \in Rejected
    \/ robot[r].pc = "reply" /\ robot[r].ev.kind \in Rejected /\ robot'[r].pc = "recv"

\* C8: handling text that is no JSON, or a message without left_motor or
\* right_motor, changes neither table, neither cache and neither pool, and
\* starts no broadcast or relay; the error reply to the sender is all there is.
C8_RejectedTextChangesNothing ==
    [][\A r \in RobotIds :
          RejectStep(r) =>
              /\ UNCHANGED <<sensor_data, action_data, last_sensor_data, last_action,
                             active_dashboard_connections, active_robot_connections>>
              /\ UNCHANGED <<dash, http, relay>>
              /\ bc'[r].phase = "idle"
              /\ \A x \in Runners \ {r} : bc'[x] = bc[x]
              /\ \A q \in RobotIds \ {r} : robot'[q] = robot[q]
              /\ IF robot[r].pc = "recv"
                 THEN robot'[r].send \in {ErrorReply("Invalid JSON"),
                                          ErrorReply("Invalid action format")}
                 ELSE robot'[r].reply = robot[r].send
      ]_vars

\* with a command cached and a dashboard registered, a robot connection has
\* had a message without the motor fields rejected
C8_Witness ==
    /\ last_action.id # 0
    /\ \E r \in RobotIds :
          /\ robot[r].ev.kind = "missing" /\ robot[r].pc = "recv"
          /\ robot[r].reply = ErrorReply("Invalid action format")

\* C9: when the commit of a robot connection's command fails, the connection
\* is sent the error payload; while its transport works it stays in the
\* robot pool and its handler goes back to receive_text.
C9_FailedCommitKeepsConnection ==
    \A r \in RobotIds :
        (robot[r].ev.kind = "valid" /\ ~robot[r].ev.persisted)
        => /\ robot[r].pc = "reply" => robot[r].send = ErrorReply("Database error")
           /\ robot[r].pc = "recv" => robot[r].reply = ErrorReply("Database error")
           /\ alive[r] => /\ robot[r].pc \in {"reply", "recv"}
                          /\ Contains(active_robot_connections, r)

\* a connection got the Database error reply, and the command it sent next
\* is committed and cached
C9_Witness ==
    \E r \in RobotIds :
        /\ robot[r].reply = ErrorReply("Database error")
        /\ robot[r].ev.kind = "valid" /\ robot[r].ev.persisted /\ robot[r].pc = "ack"
        /\ last_action.id = robot[r].ev.id
        /\ Contains(active_robot_connections, r)

\* the cache has taken the event ev of an HTTP request
Cached(ev) ==
    IF ev.kind = "telemetry" THEN last_sensor_data.db_id >= ev.id
                             ELSE last_action.id >= ev.id

\* C10: no send failure inside broadcast_sensor_data or send_action_to_robot
\* reaches the caller: a request whose commit went through has its cache
\* updated, waits on nothing but the sends, and ends with 200, however many
\* sends failed; a robot handler is in its broadcast only while sends remain.
C10_SendFailuresAbsorbed ==
    /\ \A x \in Runners : bc[x].phase # "raised"
    /\ \A r \in RobotIds : robot[r].pc = "bcast" <=> bc[r].phase = "sending"
    /\ \A t \in HttpIds :
          /\ relay[t].phase # "raised"
          /\ http[t].ev.persisted
             => /\ Cached(http[t].ev)
                /\ http[t].status \in {0, 200}
                /\ http[t].pc = "done" <=> http[t].status = 200
                /\ http[t].pc # "done"
                   => relay[t].phase = "sending" \/ bc[t].phase = "sending"

\* a request has ended with 200 after a broadcast in which one send went
\* through and another failed
C10_Witness ==
    \E t \in HttpIds :
        /\ http[t].ev.persisted /\ http[t].pc = "done" /\ http[t].status = 200
        /\ bc[t].phase = "done"
        /\ Len(bc[t].failed) >= 1 /\ Len(bc[t].log) >= 1

\* the step in which the send a broadcast or relay call is suspended on fails
CallSendFails(call, after) ==
    call.phase = "sending" /\ after.failed = Append(call.failed, call.cur)

\* the step in which the send of initial_data to dashboard connection d fails
InitialSendFails(d) == dash[d].pc = "initial" /\ ~alive[d] /\ dash'[d].pc # "initial"

\* the step in which the send of a reply or acknowledgment to robot
\* connection r fails
ReplySendFails(r) ==
    robot[r].pc \in {"reply", "ack"} /\ ~alive[r] /\ robot'[r].pc \notin {"reply", "ack"}

\* the step in which receive_text fails on connection c
ReceiveFails(c) ==
    IF c \in DashIds
    THEN dash[c].pc = "recv" /\ ~alive[c] /\ dash'[c].pc # "recv"
    ELSE robot[c].pc = "recv" /\ ~alive[c] /\ robot'[c].pc # "recv"

\* C11: when a send or a receive on a registered connection has failed and
\* the failure has been handled, the connection is in neither pool: for the
\* sends of a broadcast or relay, for the initial_data send to a dashboard,
\* for the replies and acknowledgments to a robot, and for receive_text.
C11_FailureUnregisters ==
    [][/\ \A x \in Runners :
             CallSendFails(bc[x], bc'[x])
             => ~Contains(active_dashboard_connections', bc[x].cur)
       /\ \A t \in HttpIds :
             CallSendFails(relay[t], relay'[t])
             => ~Contains(active_robot_connections', relay[t].cur)
       /\ \A d \in DashIds :
             (InitialSendFails(d) \/ ReceiveFails(d))
             => ~Contains(active_dashboard_connections', d)
       /\ \A r \in RobotIds :
             (ReplySendFails(r) \/ ReceiveFails(r))
             => ~Contains(active_robot_connections', r)
      ]_vars

\* C11, the part the code keeps: a failed send of a broadcast or relay and a
\* failed receive_text take the connection out of its pool
C11_LoopAndReceiveUnregister ==
    [][/\ \A x \in Runners :
             CallSendFails(bc[x], bc'[x])
             => ~Contains(active_dashboard_connections', bc[x].cur)
       /\ \A t \in HttpIds :
             CallSendFails(relay[t], relay'[t])
             => ~Contains(active_robot_connections', relay[t].cur)
       /\ \A c \in ConnIds :
             ReceiveFails(c)
             => /\ ~Contains(active_dashboard_connections', c)
                /\ ~Contains(active_robot_connections', c)
      ]_vars

\* the connections a call has called send_json for so far
Targets(call) ==
    Recipients(call) \cup Range(call.failed)
    \cup (IF call.phase = "sending" THEN {call.cur} ELSE {})

\* C12: a broadcast or relay sends to no connection but those that were in
\* the pool when it started: a connection registered while the call is
\* suspended on a send is not sent its message.
C12_TargetsWithinSnapshot ==
    \A e \in Calls : Targets(e.call) \subseteq Range(e.call.start)

\* C13: when a broadcast or relay has returned, none of its own sends failed
\* and other handlers changed the pool while it was suspended, every
\* connection that was in the pool when it started, is still registered and
\* has a working transport has received its message.
C13_RemovalElsewhereSkipsNone ==
    \A e \in Calls :
        (e.call.phase = "done" /\ e.call.foreign /\ e.call.failed = <<>>)
        => \A c \in Range(e.call.start) :
              (Contains(e.pool, c) /\ alive[c]) => c \in Recipients(e.call)

\* no two rows of the table carry the same timestamp: the row of greatest
\* timestamp is one row
DistinctTimestamps(table) ==
    \A i, j \in 1..Len(table) : table[i].timestamp = table[j].timestamp => i = j

\* C14: whenever last_sensor_data is populated, after an ingest and right
\* after startup_event has seeded it from a table that holds rows, it is the
\* row appended last, whatever the capture timestamps are (stated for tables
\* whose timestamps differ, where the seeding query has one answer).
C14_CacheIsLastAppended ==
    (last_sensor_data # EmptySensorData /\ DistinctTimestamps(sensor_data))
    => last_sensor_data = LastSensor

\* C14, the part the code keeps: in a run that started on an empty table, a
\* populated cache is the row appended last
C14_CacheIsLastAppendedSinceEmptyStart ==
    (boot.sensor_rows = 0 /\ last_sensor_data # EmptySensorData)
    => last_sensor_data = LastSensor

\* C15: a cache that carries a row id (last_sensor_data.db_id, last_action.id)
\* equals the row of that id in its table, in the id and in the sample fields
\* or setpoints: no cache holds data that was not committed.
C15_CacheMirrorsStore ==
    /\ last_sensor_data.db_id # 0
       => /\ last_sensor_data.db_id <= Len(sensor_data)
          /\ last_sensor_data = SensorDict(sensor_data, last_sensor_data.db_id)
    /\ last_action.id # 0
       => /\ last_action.id <= Len(action_data)
          /\ last_action = ActionDict(action_data, last_action.id)

\* both caches carry a row id, and the request served last had its append
\* fail
C15_Witness ==
    /\ last_sensor_data.db_id # 0 /\ last_action.id # 0
    /\ \E t \in HttpIds :
          /\ http[t].ev.kind \in {"telemetry", "valid"}
          /\ ~http[t].ev.persisted /\ http[t].status = 500

\* the no-data outcome (404) of the two reads
NoSensorData == [status |-> 404, body |-> EmptySensorData]
NoAction == [status |-> 404, body |-> InitialAction]

\* C16: while a table is empty (nothing was ever ingested of that kind), the
\* read of that kind answers 404; once a row of a kind has been committed, in
\* this run or before a restart, the read of that kind answers 200, never 404.
C16_NoDataUntilFirstIngest ==
    /\ sensor_data = <<>> => get_latest_sensor_data_response = {NoSensorData}
    /\ action_data = <<>> => get_latest_action_response = {NoAction}
    /\ sensor_data # <<>> => \A res \in get_latest_sensor_data_response : res.status = 200
    /\ action_data # <<>> => \A res \in get_latest_action_response : res.status = 200

\* telemetry was ingested before a restart and no command ever was, an
\* append of a command having failed: the telemetry read answers 200, the
\* command read 404
C16_Witness ==
    /\ boot.sensor_rows >= 1
    /\ action_data = <<>>
    /\ \E t \in HttpIds : http[t].ev.kind = "valid" /\ ~http[t].ev.persisted
    /\ \A res \in get_latest_sensor_data_response : res.status = 200
    /\ get_latest_action_response = {NoAction}

\* the handler of connection c has ended on WebSocketDisconnect
Closed(c) == IF c \in DashIds THEN dash[c].pc = "closed" ELSE robot[c].pc = "closed"

\* the step is a restart of the process: every connection object is gone
Restarted ==
    /\ dash' = [d \in DashIds |-> NewDash]
    /\ robot' = [r \in RobotIds |-> NewRobot]

\* in this step the call moves on to a connection and calls send_json on it
TakesTarget(call, after) ==
    after.phase = "sending" /\ (call.phase # "sending" \/ after.idx # call.idx)

\* C17: once receive_text has raised WebSocketDisconnect on a connection, the
\* connection is in neither pool, its handler takes no further step (it
\* stays ended until the process restarts), and no broadcast or relay calls
\* send_json on it from then on.
C17_DisconnectIsTerminal ==
    [][\A c \in ConnIds :
          /\ (IF c \in DashIds THEN dash'[c].pc = "closed" ELSE robot'[c].pc = "closed")
             => /\ ~Contains(active_dashboard_connections', c)
                /\ ~Contains(active_robot_connections', c)
                /\ \A x \in Runners : TakesTarget(bc[x], bc'[x]) => bc'[x].cur # c
                /\ \A t \in HttpIds : TakesTarget(relay[t], relay'[t]) => relay'[t].cur # c
          /\ Closed(c)
             => \/ Restarted
                \/ IF c \in DashIds THEN dash'[c] = dash[c] ELSE robot'[c] = robot[c]
      ]_vars

\* dashboard 1 was disconnected, and a broadcast that started after that has
\* sent to the dashboard that is left and returned
C17_Witness ==
    /\ dash[1].pc = "closed"
    /\ \E x \in Runners :
          /\ bc[x].phase = "done"
          /\ bc[x].start = <<2>>
          /\ Recipients(bc[x]) = {2}

\* POST /actions/ in slot t has been answered 200: its command was accepted,
\* and its relay and its broadcast have returned
ActionServed(t) ==
    /\ http[t].route = "POST /actions/" /\ http[t].pc = "done" /\ http[t].status = 200
    /\ http[t].ev.kind = "valid" /\ http[t].ev.persisted

\* connection c has received the motor_control message of the command in row id
GotMotorControl(call, c, id) ==
    \E i \in 1..Len(call.log) :
        /\ call.log[i].to = c
        /\ call.log[i].msg = MotorControl(action_data[id].left_motor,
                                          action_data[id].right_motor,
                                          action_data[id].timestamp,
                                          action_data[id].source)

\* connection c has received an action_update of the call
GotActionUpdate(call, c) ==
    \E i \in 1..Len(call.log) :
        call.log[i].to = c /\ call.log[i].msg.type = "action_update"

\* the connections of a call's starting pool that are registered and work
Reachable(call, pool) ==
    {c \in Range(call.start) : Contains(pool, c) /\ alive[c]}

\* C18: when POST /actions/ has accepted a command and answered, every
\* connection of the robot pool (there when the relay started, still
\* registered, its transport working) has received the motor_control message
\* with the accepted setpoints, and every such connection of the dashboard
\* pool has received an action_update.
C18_AcceptedCommandFansOut ==
    \A t \in HttpIds :
        ActionServed(t)
        => /\ \A c \in Reachable(relay[t], active_robot_connections) :
                 GotMotorControl(relay[t], c, http[t].ev.id)
           /\ \A c \in Reachable(bc[t], active_dashboard_connections) :
                 GotActionUpdate(bc[t], c)

\* C18, the part the code keeps: with no send failing and no other handler
\* changing the pools meanwhile, every connection that was in a pool when its
\* loop started has received its message
C18_FansOutWhenUndisturbed ==
    \A t \in HttpIds :
        (/\ ActionServed(t)
         /\ relay[t].failed = <<>> /\ ~relay[t].foreign
         /\ bc[t].failed = <<>> /\ ~bc[t].foreign)
        => /\ \A c \in Range(relay[t].start) : GotMotorControl(relay[t], c, http[t].ev.id)
           /\ \A c \in Range(bc[t].start) : GotActionUpdate(bc[t], c)

\* C19: disconnect_dashboard / disconnect_robot for a connection that is not
\* in the pool (never registered, or removed before) yields the pool as it
\* is, the first time and every time after; applied again after a removal it
\* changes nothing more.
C19_UnregisterAbsentIsNoOp ==
    \A pool \in {active_dashboard_connections, active_robot_connections} :
        \A c \in ConnIds :
            /\ ~Contains(pool, c)
               => /\ disconnect(pool, c) = pool
                  /\ disconnect(disconnect(pool, c), c) = pool
            /\ disconnect(disconnect(pool, c), c) = disconnect(pool, c)

\* dashboard 1 was unregistered twice, by the broadcast whose send to it
\* failed and by its own handler, and another dashboard is registered
C19_Witness ==
    /\ dash[1].pc = "closed"
    /\ \E x \in Runners : Contains(bc[x].failed, 1)
    /\ active_dashboard_connections # <<>>
    /\ ~Contains(active_dashboard_connections, 1)

\* C20: connect_* of a connection that is not yet in the pool followed at once
\* by disconnect_* of it yields the pool as it was: same length, same
\* members, same order.
C20_RegisterUnregisterRestores ==
    \A pool \in {active_dashboard_connections, active_robot_connections} :
        \A c \in ConnIds :
            ~Contains(pool, c)
            => /\ disconnect(connect(pool, c), c) = pool
               /\ Len(connect(pool, c)) = Len(pool) + 1

\* dashboard 2 connected behind dashboard 1 and was unregistered by its own
\* handler before anything was sent to it: the pool is dashboard 1 alone again
C20_Witness ==
    /\ dash[2].pc = "closed" /\ dash[1].pc = "recv" /\ dash[3].pc = "new"
    /\ active_dashboard_connections = <<1>>
    /\ \A x \in Runners : bc[x].phase = "idle"

\* the handler of robot connection r is working on a command it committed
Committed(r) == robot[r].ev.kind = "valid" /\ robot[r].ev.persisted

\* the acknowledgment of the command robot connection r is working on
AckOf(r) ==
    Ack(robot[r].ev.id, action_data[robot[r].ev.id].left_motor,
        action_data[robot[r].ev.id].right_motor, action_data[robot[r].ev.id].timestamp)

\* C21: for a command of a robot connection whose commit went through, the
\* row is in the table before the cache holds it, both before the
\* acknowledgment is sent, and the action_update broadcast starts only when
\* the acknowledgment has been sent: while the acknowledgment is on its way
\* no dashboard has been sent the action_update.
C21_PersistCacheAckBroadcast ==
    /\ last_action.id <= Len(action_data)
    /\ \A r \in RobotIds :
          Committed(r)
          => /\ robot[r].ev.id <= Len(action_data)
             /\ last_action.id >= robot[r].ev.id
             /\ robot[r].pc = "ack"
                => /\ robot[r].send = AckOf(r)
                   /\ bc[r].phase = "idle" /\ bc[r].log = <<>>
             /\ bc[r].phase # "idle"
                => /\ robot[r].reply = AckOf(r)
                   /\ bc[r].kind = "action_update"

\* the acknowledgment of a committed command was sent and a dashboard has
\* then received the action_update
C21_Witness ==
    \E r \in RobotIds :
        /\ Committed(r)
        /\ robot[r].reply = AckOf(r)
        /\ bc[r].kind = "action_update" /\ bc[r].log # <<>>

\* the step in which dashboard connection d is accepted and registered
Connects(d) == dash[d].pc = "new" /\ dash'[d].pc # "new"

\* the initial_data message built from the caches as they are
InitialData == [type |-> "initial_data", sensors |-> last_sensor_data,
                last_action |-> last_action]

\* C22: when a dashboard connects, initial_data with the telemetry and the
\* command cached at that moment is sent to it if and only if
\* last_sensor_data is populated, whatever last_action holds; at that point
\* no broadcast has called send_json on the connection.
C22_InitialDataIffTelemetryCached ==
    [][\A d \in DashIds :
          Connects(d)
          => /\ Contains(active_dashboard_connections', d)
             /\ IF last_sensor_data # EmptySensorData
                THEN dash'[d].pc = "initial" /\ dash'[d].send = InitialData
                ELSE dash'[d].pc = "recv" /\ dash'[d].send = NoMsg
             /\ \A x \in Runners : d \notin Targets(bc'[x])
      ]_vars

\* after a restart on a store that holds commands and no telemetry, a
\* dashboard has connected and was sent no initial_data
C22_Witness ==
    /\ boot.action_rows >= 1 /\ last_action.id # 0
    /\ sensor_data = <<>> /\ last_sensor_data = EmptySensorData
    /\ dash[1].pc = "recv"

\* the connection that would connect next, and the slot the next request
\* would take
NextToConnect(d) == dash[d].pc = "new" /\ \A e \in DashIds : e < d => dash[e].pc # "new"
NextSlot(t) ==
    /\ http[t].pc \in {"idle", "done"}
    /\ \A u \in HttpIds : u < t => http[u].pc \notin {"idle", "done"}

\* C23: while a broadcast is suspended on a send, the other handlers can
\* take their steps: a dashboard can connect and be registered, a
\* disconnected one can be unregistered, a robot connection's command can be
\* committed and cached, and a telemetry request can be committed, cached and
\* start its own broadcast.
C23_BroadcastBlocksNoOne ==
    \A x \in Runners :
        (bc[x].phase = "sending" /\ events < MaxEvents)
        => /\ \A d \in DashIds :
                 NextToConnect(d)
                 => ENABLED (dashboard_connect(d)
                             /\ Contains(active_dashboard_connections', d))
           /\ \A d \in DashIds :
                 (dash[d].pc = "recv" /\ ~alive[d] /\ d # bc[x].cur)
                 => ENABLED (dashboard_receive(d)
                             /\ ~Contains(active_dashboard_connections', d))
           /\ \A r \in RobotIds :
                 (robot[r].pc = "recv" /\ alive[r])
                 => ENABLED (robot_receive(r)
                             /\ Len(action_data') = Len(action_data) + 1
                             /\ last_action'.id = Len(action_data'))
           /\ \A t \in HttpIds :
                 (NextSlot(t) /\ active_dashboard_connections # <<>>)
                 => ENABLED (store_sensor_data(t)
                             /\ Len(sensor_data') = Len(sensor_data) + 1
                             /\ last_sensor_data'.db_id = Len(sensor_data')
                             /\ bc'[t].phase = "sending")

\* the broadcast of a robot connection's command is suspended on a send, and
\* a telemetry request that came in meanwhile is in its own broadcast
C23_Witness ==
    \E r \in RobotIds, t \in HttpIds :
        /\ bc[r].phase = "sending" /\ bc[r].kind = "action_update"
        /\ bc[t].phase = "sending" /\ bc[t].kind = "sensor"
        /\ http[t].ev.persisted /\ last_sensor_data.db_id = http[t].ev.id

\* the connections a call's sends went through to, in the order of the sends
Visited(call) == [i \in 1..Len(call.log) |-> call.log[i].to]

\* the list holds connections in the order in which they connected
\* (connections are numbered in that order)
InRegistrationOrder(pool) == \A i, j \in 1..Len(pool) : i < j => pool[i] < pool[j]

\* a call that no other handler's change of the pool disturbed and in which
\* no send failed
Undisturbed(call) == ~call.foreign /\ call.failed = <<>>

\* C24: each pool lists its connections in registration order; a broadcast
\* or relay during which the pool does not change sends to the connections in
\* that order, one after the other; and two such calls over the same pool
\* visit the connections in the same order.
C24_VisitsInPoolOrder ==
    /\ InRegistrationOrder(active_dashboard_connections)
    /\ InRegistrationOrder(active_robot_connections)
    /\ \A e \in Calls :
          Undisturbed(e.call)
          => /\ InRegistrationOrder(e.call.start)
             /\ e.call.phase = "sending"
                => /\ Visited(e.call) = SubSeq(e.call.start, 1, e.call.idx - 1)
                   /\ e.call.cur = e.call.start[e.call.idx]
             /\ e.call.phase = "done" => Visited(e.call) = e.call.start
    /\ \A e, f \in Calls :
          (/\ Undisturbed(e.call) /\ Undisturbed(f.call)
           /\ e.call.phase = "done" /\ f.call.phase = "done"
           /\ e.call.start = f.call.start)
          => Visited(e.call) = Visited(f.call)

\* a broadcast over two dashboards has returned undisturbed: it sent to the
\* one that connected first, then to the other
C24_Witness ==
    \E x \in Runners :
        /\ bc[x].phase = "done" /\ Undisturbed(bc[x])
        /\ active_dashboard_connections = <<1, 2>>
        /\ Visited(bc[x]) = <<1, 2>>

\* messages that go to dashboards through broadcast_sensor_data, and the one
\* that goes to robots through send_action_to_robot
DashboardMessages == {"sensor", "action_update"}
RobotMessages == {"motor_control"}

\* C25: a step that registers, unregisters or prunes a connection changes one
\* pool and leaves the other as it is; the dashboard pool holds dashboard
\* connections and the robot pool robot connections; telemetry and
\* action_update messages go to members of the dashboard pool alone, and
\* motor_control messages to members of the robot pool alone.
C25_PoolsIndependent ==
    [][/\ ~Restarted
          => \/ active_dashboard_connections' = active_dashboard_connections
             \/ active_robot_connections' = active_robot_connections
       /\ Range(active_dashboard_connections') \subseteq DashIds
       /\ Range(active_robot_connections') \subseteq RobotIds
       /\ \A x \in Runners :
             /\ Targets(bc'[x]) \subseteq DashIds
             /\ bc'[x].phase # "idle" => bc'[x].kind \in DashboardMessages
             /\ \A i \in 1..Len(bc'[x].log) : bc'[x].log[i].msg.type \in DashboardMessages
       /\ \A t \in HttpIds :
             /\ Targets(relay'[t]) \subseteq RobotIds
             /\ relay'[t].phase # "idle" => relay'[t].kind \in RobotMessages
             /\ \A i \in 1..Len(relay'[t].log) :
                   relay'[t].log[i].msg.action = "motor_control"
      ]_vars

\* with a connection in either pool, a command has been relayed to the robot
\* and its action_update sent to the dashboard, and a send failure has pruned
\* one pool
C25_Witness ==
    \E t \in HttpIds :
        /\ relay[t].phase = "done" /\ bc[t].phase = "done"
        /\ Len(relay[t].log) + Len(relay[t].failed) >= 1
        /\ Len(bc[t].log) + Len(bc[t].failed) >= 1
        /\ Len(relay[t].failed) + Len(bc[t].failed) >= 1

\* the ingress event whose handler x made its current broadcast_sensor_data call
Trigger(x) == IF x \in HttpIds THEN http[x].ev ELSE robot[x].ev

\* message msg of a broadcast describes the event ev: it carries the row the
\* event was committed as
Describes(msg, ev) ==
    IF msg.type = "sensor"
    THEN msg.data = SensorDict(sensor_data, ev.id)
    ELSE msg.action = ActionDict(action_data, ev.id)

\* C26: every message a broadcast has delivered carries the values of the
\* event that triggered the broadcast, also when another ingest has updated
\* the cache while the handler was suspended, and all recipients of one
\* broadcast have received the same payload.
C26_BroadcastDescribesItsEvent ==
    \A x \in Runners :
        bc[x].phase # "idle"
        => /\ \A i \in 1..Len(bc[x].log) : Describes(bc[x].log[i].msg, Trigger(x))
           /\ \A i, j \in 1..Len(bc[x].log) : bc[x].log[i].msg = bc[x].log[j].msg

\* C26, the part the code keeps: a broadcast during which no cache was
\* written carries its event to every recipient
C26_DescribesItsEventWhenCacheUntouched ==
    \A x \in Runners :
        (/\ bc[x].phase # "idle"
         /\ last_action.id = Len(action_data) /\ last_sensor_data.db_id = Len(sensor_data)
         /\ Trigger(x).id = (IF bc[x].kind = "sensor" THEN Len(sensor_data)
                                                       ELSE Len(action_data)))
        => \A i \in 1..Len(bc[x].log) : Describes(bc[x].log[i].msg, Trigger(x))

\* C27: a command of a robot connection that was committed and cached is not
\* answered with the "Database error" reply, and once its handler is past the
\* acknowledgment, whether that send went through or failed, the
\* action_update broadcast has been made.
C27_PersistedCommandIsBroadcast ==
    \A r \in RobotIds :
        Committed(r)
        => /\ robot[r].send # DatabaseErrorReply
           /\ robot[r].pc # "ack"
              => bc[r].phase # "idle" /\ bc[r].kind = "action_update"

\* C27, the part the code keeps: when the acknowledgment has been delivered,
\* the broadcast has been made and no error was reported
C27_BroadcastWhenAcknowledged ==
    \A r \in RobotIds :
        (Committed(r) /\ robot[r].reply = AckOf(r))
        => /\ robot[r].send # DatabaseErrorReply
           /\ bc[r].phase # "idle" /\ bc[r].kind = "action_update"

\* the connections a call has called send_json for, one entry per send: those
\* that went through, those that failed and the one it is suspended on
Sends(call) ==
    Visited(call) \o call.failed
    \o (IF call.phase = "sending" THEN <<call.cur>> ELSE <<>>)

\* C28: within one broadcast or relay call send_json is called at most once
\* per connection, whatever connections register, disconnect or are pruned
\* while the call is suspended.
C28_NoConnectionSentTwice ==
    \A e \in Calls :
        \A i, j \in 1..Len(Sends(e.call)) :
            Sends(e.call)[i] = Sends(e.call)[j] => i = j

\* a broadcast has returned after sending to three dashboards, one send
\* more than its starting pool held, the pool having changed under it
C28_Witness ==
    \E x \in Runners :
        /\ bc[x].phase = "done" /\ bc[x].foreign
        /\ Len(Sends(bc[x])) >= 3
        /\ Len(Sends(bc[x])) > Len(bc[x].start)

====
